---- MODULE Spec2Model ----
(***************************************************************************)
(* Model of dusty: a background directory scan that builds a DirInfo tree  *)
(* and streams progress snapshots over a bounded channel, and the Bubble   *)
(* Tea model (Update) that browses, re-sorts and deletes from that tree.   *)
(*                                                                         *)
(* DirInfo objects are heap cells: `heap` maps a node identity (the id of  *)
(* the filesystem entry the node was created for) to its fields, so that   *)
(* pointer identity, sharing and in-place mutation are kept.               *)
(***************************************************************************)
EXTENDS Integers, Sequences, FiniteSets, TLC

(***************************************************************************)
(* Bounds of the model.                                                    *)
(***************************************************************************)
\* file sizes are drawn from 0..MaxSize
MaxSize == 2
\* number of delete requests explored in one session
MaxDeletes == 2
\* entries of the wide scan root beyond the capacity of the progress channel
WideExtra == 2

(***************************************************************************)
(* Program constants.                                                      *)
(***************************************************************************)
\* the nil pointer / nil error
Nil == 0
\* capacity of progressChan
ChanCap == 100
\* sort.Slice switches from insertion sort to pdqsort above this length
MaxInsertion == 12
\* number of entries shown in the scanning preview
PreviewLimit == 5
\* seconds a "Deleted" / "Error deleting" status stays visible
DeletedTTL == 3
ErrorTTL == 5

(***************************************************************************)
(* Names and paths.  A name is a sequence of byte values; a path is the    *)
(* sequence of its components.                                             *)
(***************************************************************************)
\* strings.ToLower on one byte
LowerByte(c) == IF c >= 65 /\ c <= 90 THEN c + 32 ELSE c

ToLower(s) == [i \in 1..Len(s) |-> LowerByte(s[i])]

\* Go string comparison s < t (bytewise lexicographic)
StrLess(s, t) ==
    \E k \in 1..(Len(t)) :
        /\ \A i \in 1..(k - 1) : i <= Len(s) /\ s[i] = t[i]
        /\ \/ k = Len(s) + 1
           \/ k <= Len(s) /\ s[k] < t[k]

\* filepath.Join(path, name)
Join(path, name) == Append(path, name)

\* filepath.Base(path)
Base(path) == path[Len(path)]

(***************************************************************************)
(* The filesystem being scanned: a sequence of entries, entry 1 is the     *)
(* scan root, every other entry names its parent directory.                *)
(***************************************************************************)
Entry(parent, name, isDir, size, statErr, listErr) ==
    [parent |-> parent, name |-> name, isDir |-> isDir, size |-> size,
     statErr |-> statErr, listErr |-> listErr]

File(parent, name, size) == Entry(parent, name, FALSE, size, FALSE, FALSE)

Dir(parent, name) == Entry(parent, name, TRUE, 0, FALSE, FALSE)

RootId == 1

RootPath == << <<46>> >>

\* os.ReadDir: the entries of a directory, sorted by filename (the names in
\* one directory are pairwise distinct)
ReadDir(f, dir) ==
    LET S == {i \in 1..Len(f) : f[i].parent = dir}
        Rank(i) == Cardinality({j \in S : StrLess(f[j].name, f[i].name)}) + 1
    IN  [k \in 1..Cardinality(S) |-> CHOOSE i \in S : Rank(i) = k]

(***************************************************************************)
(* DirInfo and sorting.                                                    *)
(***************************************************************************)
\* &DirInfo{Path: path, Parent: parent, IsDir: info.IsDir()}
NewDirInfo(path, parent, isDir) ==
    [Path |-> path, Size |-> 0, Children |-> << >>, Parent |-> parent,
     IsDir |-> isDir, Error |-> FALSE]

EmptyHeap == [x \in {} |-> x]

\* the less functions handed to sort.Slice, on two nodes of heap h
SizeLess(h, a, b) == h[a].Size > h[b].Size

NameLess(h, a, b) ==
    StrLess(ToLower(Base(h[a].Path)), ToLower(Base(h[b].Path)))

Less(h, mode, a, b) ==
    IF mode = "name" THEN NameLess(h, a, b) ELSE SizeLess(h, a, b)

\* the element of a one-element set; {e : x \in {v}} stands for a local
\* variable x of value v, evaluated once
Only(S) == CHOOSE r \in S : TRUE

\* inner loop of the insertion sort: x moves left while it is less than its
\* left neighbour, so it stops behind the last element it is not less than
InsertSorted(h, mode, s, x) ==
    LET stops == {i \in 1..Len(s) : ~Less(h, mode, x, s[i])}
        k == IF stops = {} THEN 0 ELSE CHOOSE i \in stops : \A j \in stops : j <= i
    IN  SubSeq(s, 1, k) \o << x >> \o SubSeq(s, k + 1, Len(s))

RECURSIVE SortPrefix(_, _, _, _)
SortPrefix(h, mode, s, n) ==
    IF n = 0 THEN << >>
    ELSE Only({InsertSorted(h, mode, sorted, s[n]) :
                  sorted \in {SortPrefix(h, mode, s, n - 1)}})

\* the slice in which element i of s stands at index pos[i]
PlaceAt(s, pos) == [k \in 1..Len(s) |-> s[CHOOSE i \in 1..Len(s) : pos[i] = k]]

\* the one ordering of a slice whose keys are pairwise distinct
SortDistinct(h, mode, s) ==
    LET n == Len(s)
        \* element i has pos[i] - 1 elements that are less than it
        pos == SubSeq([i \in 1..n |->
                        Cardinality({j \in 1..n : Less(h, mode, s[j], s[i])}) + 1], 1, n)
    IN  PlaceAt(s, pos)

\* data.Swap(i, j)
Swap(s, i, j) == [s EXCEPT ![i] = s[j], ![j] = s[i]]

\* order2: the indices a and b in the order of their elements, and whether
\* they changed places
order2(h, mode, s, a, b) ==
    IF Less(h, mode, s[b], s[a]) THEN [a |-> b, b |-> a, swaps |-> 1]
    ELSE [a |-> a, b |-> b, swaps |-> 0]

\* median: the index of the median of s[a], s[b], s[c]
median(h, mode, s, a, b, c) ==
    LET o1 == order2(h, mode, s, a, b)
        o2 == order2(h, mode, s, o1.b, c)
        o3 == order2(h, mode, s, o1.a, o2.a)
    IN  [pivot |-> o3.b, swaps |-> o1.swaps + o2.swaps + o3.swaps]

\* choosePivot on a slice of 8 to 49 elements: the median of the elements at
\* the three quarters; no swap is the hint that the slice may be sorted
choosePivot(h, mode, s) ==
    LET q == Len(s) \div 4
    IN  median(h, mode, s, 1 + q, 1 + 2 * q, 1 + 3 * q)

\* partialInsertionSort on a slice of fewer than 50 elements: it shifts
\* nothing, and reports whether the slice is sorted
partialInsertionSort(h, mode, s) ==
    \A i \in 2..Len(s) : ~Less(h, mode, s[i], s[i - 1])

\* partition, the pivot standing at index 1: i moves up over the elements
\* less than the pivot, j moves down over the others
RECURSIVE ScanUp(_, _, _, _, _)
ScanUp(h, mode, s, i, j) ==
    IF i <= j /\ Less(h, mode, s[i], s[1]) THEN ScanUp(h, mode, s, i + 1, j)
    ELSE i

RECURSIVE ScanDown(_, _, _, _, _)
ScanDown(h, mode, s, i, j) ==
    IF i <= j /\ ~Less(h, mode, s[j], s[1]) THEN ScanDown(h, mode, s, i, j - 1)
    ELSE j

RECURSIVE PartitionLoop(_, _, _, _, _)
PartitionLoop(h, mode, s, i, j) ==
    LET i1 == ScanUp(h, mode, s, i, j)
        j1 == ScanDown(h, mode, s, i1, j)
    IN  IF i1 > j1 THEN [s |-> Swap(s, j1, 1), mid |-> j1]
        ELSE Only({PartitionLoop(h, mode, swapped, i2, j2) :
                      swapped \in {Swap(s, i1, j1)}, i2 \in {i1 + 1}, j2 \in {j1 - 1}})

partition(h, mode, s, pivot) ==
    Only({PartitionLoop(h, mode, swapped, 2, Len(s)) : swapped \in {Swap(s, 1, pivot)}})

\* the two sides of the pivot at index mid, each sorted by insertion sort
SortSides(h, mode, s, mid) ==
    LET left == SubSeq(s, 1, mid - 1)
        right == SubSeq(s, mid + 1, Len(s))
    IN  SortPrefix(h, mode, left, Len(left)) \o << s[mid] >>
            \o SortPrefix(h, mode, right, Len(right))

\* pdqsort on a slice of MaxInsertion + 1 elements: a slice found sorted is
\* left alone; any other is partitioned around the pivot, and both sides,
\* of at most MaxInsertion elements, are sorted by insertion sort
pdqsort(h, mode, s) ==
    LET cp == choosePivot(h, mode, s)
    IN  IF cp.swaps = 0 /\ partialInsertionSort(h, mode, s) THEN s
        ELSE Only({SortSides(h, mode, p.s, p.mid) :
                      p \in {partition(h, mode, s, cp.pivot)}})

\* sort.Slice: a slice of at most MaxInsertion elements is sorted by insertion
\* sort and one of MaxInsertion + 1 elements by one round of pdqsort; the
\* longer slices of this model have pairwise distinct keys, for which every
\* sorting algorithm returns the same order.
SortSlice(h, mode, s) ==
    IF Len(s) <= MaxInsertion THEN SortPrefix(h, mode, s, Len(s))
    ELSE IF Len(s) = MaxInsertion + 1 THEN pdqsort(h, mode, s)
    ELSE SortDistinct(h, mode, s)

(***************************************************************************)
(* The recursive walk.  A call returns err, the nodes it allocated and the *)
(* number of increments it made to *filesScanned and *dirsScanned.         *)
(***************************************************************************)
WalkResult(err, nodes, files, dirs) ==
    [err |-> err, nodes |-> nodes, files |-> files, dirs |-> dirs]

\* os.Stat(path) failed: return nil, err
StatFailure == WalkResult(TRUE, EmptyHeap, 0, 0)

\* a file that is sized but not counted
FileResultUncounted(id, node, size) ==
    WalkResult(FALSE, id :> [node EXCEPT !.Size = size], 0, 0)

\* !info.IsDir(): Size = info.Size(), *filesScanned++, return
FileResult(id, node, size) ==
    WalkResult(FALSE, id :> [node EXCEPT !.Size = size], 1, 0)

\* a listing failure that is returned to the caller as an error
ListFailureFatal(id, node) == WalkResult(TRUE, EmptyHeap, 0, 1)

\* os.ReadDir(path) failed after *dirsScanned++: Error = err, return dirInfo, nil
ListFailure(id, node) ==
    WalkResult(FALSE, id :> [node EXCEPT !.Error = TRUE], 0, 1)

\* the loop accumulator: nodes allocated below the directory, its Children,
\* totalSize and the counter increments so far
Acc0 == [nodes |-> EmptyHeap, children |-> << >>, totalSize |-> 0,
         files |-> 0, dirs |-> 0]

\* a child was returned: append it and add its size
AttachChild(acc, child, r) ==
    [nodes |-> acc.nodes @@ r.nodes,
     children |-> Append(acc.children, child),
     totalSize |-> acc.totalSize + r.nodes[child].Size,
     files |-> acc.files + r.files,
     dirs |-> acc.dirs + r.dirs]

\* a failing child that discards the siblings collected before it
SkipChildReset(acc, child, r) ==
    [acc EXCEPT !.children = << >>, !.totalSize = 0]

\* the recursive call failed: "Skip entries we can't access"
SkipChild(acc, child, r) == acc

\* after the loop: Size = totalSize, Children sorted by size (descending)
FinishDir(id, node, acc) ==
    id :> [node EXCEPT !.Size = acc.totalSize,
                       !.Children = SortSlice(acc.nodes, "size", acc.children)]

RECURSIVE calculateDirSizeWithProgress(_, _, _, _)
RECURSIVE WalkEntries(_, _, _, _, _, _)

\* one iteration of "for _, entry := range entries"
LoopBody(f, dir, path, acc, child) ==
    LET r == calculateDirSizeWithProgress(f, child, Join(path, f[child].name), dir)
    IN  IF r.err THEN SkipChild(acc, child, r) ELSE AttachChild(acc, child, r)

WalkEntries(f, dir, path, entries, i, acc) ==
    IF i > Len(entries) THEN acc
    ELSE WalkEntries(f, dir, path, entries, i + 1,
                     LoopBody(f, dir, path, acc, entries[i]))

\* the walk below the scan root (parent # nil, so dirInfo is never currentRoot
\* and nothing is published)
calculateDirSizeWithProgress(f, id, path, parent) ==
    IF f[id].statErr THEN StatFailure
    ELSE LET node == NewDirInfo(path, parent, f[id].isDir)
         IN  IF ~f[id].isDir THEN FileResult(id, node, f[id].size)
             ELSE IF f[id].listErr THEN ListFailure(id, node)
             ELSE LET acc == WalkEntries(f, id, path, ReadDir(f, id), 1, Acc0)
                  IN  WalkResult(FALSE, FinishDir(id, node, acc) @@ acc.nodes,
                                 acc.files, acc.dirs + 1)

(***************************************************************************)
(* Filesystems the session may be started on.  Names: "." = <<46>>,        *)
(* "a" = <<97>>, "B" = <<66>>, ...                                         *)
(***************************************************************************)
Sizes == 0..MaxSize

\* root { a (file), s/ { b (file) } }
SpecTree(sa) ==
    << Dir(0, <<46>>), File(1, <<97>>, sa), Dir(1, <<115>>), File(3, <<98>>, 1) >>

\* root { d/ { e/ { f }, g } }
DeepTree(sf) ==
    << Dir(0, <<46>>), Dir(1, <<100>>), Dir(2, <<101>>), File(3, <<102>>, sf),
       File(2, <<103>>, 1) >>

\* root { x (stat fails), l/ (listing fails) { y }, p/ { q, r (stat fails) } }
ErrTree(sq) ==
    << Dir(0, <<46>>),
       Entry(1, <<120>>, FALSE, 1, TRUE, FALSE),
       Entry(1, <<108>>, TRUE, 0, FALSE, TRUE),
       File(3, <<121>>, 1),
       Dir(1, <<112>>),
       File(5, <<113>>, sq),
       Entry(5, <<114>>, FALSE, 2, TRUE, FALSE) >>

\* root { B, a, m/ (empty) }: equal sizes and mixed-case names
TieTree(sa) ==
    << Dir(0, <<46>>), File(1, <<66>>, 1), File(1, <<97>>, sa), Dir(1, <<109>>) >>

\* the scan root is a regular file
RootFile(sz) == << File(0, <<46>>, sz) >>

\* the scan root disappears between main's check and the scan
RootStatErr == << Entry(0, <<46>>, TRUE, 0, TRUE, FALSE), File(1, <<97>>, 1) >>

\* the scan root cannot be listed
RootListErr == << Entry(0, <<46>>, TRUE, 0, FALSE, TRUE), File(1, <<97>>, 1) >>

Scenarios ==
    {SpecTree(a) : a \in Sizes}
        \cup {DeepTree(a) : a \in Sizes}
        \cup {ErrTree(a) : a \in Sizes}
        \cup {TieTree(a) : a \in Sizes}
        \cup {RootFile(a) : a \in Sizes}
        \cup {RootStatErr, RootListErr}

\* a three-digit decimal file name
DigitName(i) == << 48 + (i \div 100), 48 + ((i \div 10) % 10), 48 + (i % 10) >>

\* a root directory with more entries than the progress channel holds, all
\* files of pairwise distinct sizes
WideTree ==
    [i \in 1..(ChanCap + WideExtra + 1) |->
        IF i = 1 THEN Dir(0, <<46>>) ELSE File(1, DigitName(i), i)]

\* a root directory of MaxInsertion + 1 files: the first by name is empty,
\* the others have one byte each
TieWide ==
    [i \in 1..(MaxInsertion + 2) |->
        IF i = 1 THEN Dir(0, <<46>>)
        ELSE File(1, DigitName(i), IF i = 2 THEN 0 ELSE 1)]

(***************************************************************************)
(* formatSize.  An int64 byte count does not fit the integers of the model *)
(* checker, so a non-negative one is written in base unit, least           *)
(* significant digit first: Int64Digits digits, the last at most           *)
(* MaxTopDigit (2^63 - 1 = 7 * 1024^6 + 1023 * 1024^5 + ... + 1023).       *)
(***************************************************************************)
\* const unit = 1024
unit == 1024
\* "KMGTPE"
UnitLetters == << "K", "M", "G", "T", "P", "E" >>
\* digits of an int64 in base unit, and the largest value of the last one
Int64Digits == 7
MaxTopDigit == 7
\* significand bits of a float64
MantissaBits == 53

\* the int64 value v, for a v below unit^3
Int64(v) ==
    [i \in 1..Int64Digits |->
        CASE i = 1 -> v % unit
          [] i = 2 -> (v \div unit) % unit
          [] i = 3 -> v \div (unit * unit)
          [] OTHER -> 0]

\* n == 0
IsZero(n) == \A i \in 1..Len(n) : n[i] = 0

\* n < unit
BelowUnit(n) == \A i \in 2..Len(n) : n[i] = 0

\* n / unit
DivUnit(n) == Tail(n) \o << 0 >>

\* a loop that divides until nothing is left
RECURSIVE UnitLoopToZero(_, _)
UnitLoopToZero(n, exp) ==
    IF IsZero(n) THEN exp ELSE UnitLoopToZero(DivUnit(n), exp + 1)

\* for n := bytes / unit; n >= unit; n /= unit { div *= unit; exp++ }
\* (div is unit^(exp + 1) throughout)
RECURSIVE UnitLoop(_, _)
UnitLoop(n, exp) ==
    IF BelowUnit(n) THEN exp ELSE UnitLoop(DivUnit(n), exp + 1)

\* number of bits of a digit
RECURSIVE BitLen(_)
BitLen(v) == IF v = 0 THEN 0 ELSE 1 + BitLen(v \div 2)

\* number of bits of n
BitLength(n) ==
    IF IsZero(n) THEN 0
    ELSE LET top == CHOOSE i \in 1..Len(n) :
                        n[i] # 0 /\ \A j \in (i + 1)..Len(n) : n[j] = 0
         IN  BitLen(unit - 1) * (top - 1) + BitLen(n[top])

\* digits that reached unit are carried into the next one
RECURSIVE Carry(_, _)
Carry(n, i) ==
    IF i >= Len(n) THEN n
    ELSE IF n[i] >= unit
         THEN Carry([n EXCEPT ![i] = @ - unit, ![i + 1] = @ + 1], i + 1)
         ELSE Carry(n, i + 1)

\* float64(n): the nearest value with MantissaBits significant bits, ties to
\* the even one; at most BitLen(unit - 1) bits are dropped, all of digit 1
ToFloat64(n) ==
    LET s == BitLength(n) - MantissaBits
    IN  IF s <= 0 THEN n
        ELSE LET q    == 2^s
                 low  == n[1] % q
                 kept == IF q = unit THEN n[2] % 2 ELSE (n[1] \div q) % 2
                 up   == 2 * low > q \/ (2 * low = q /\ kept = 1)
             IN  Carry([n EXCEPT ![1] = @ - low + (IF up THEN q ELSE 0)], 1)

\* ten times the fraction frac / unit^Len(frac): the digits of the product, the
\* last one being its integer part
RECURSIVE TimesTen(_, _, _)
TimesTen(frac, i, carry) ==
    IF i > Len(frac) THEN << carry >>
    ELSE LET t == frac[i] * 10 + carry
         IN  << t % unit >> \o TimesTen(frac, i + 1, t \div unit)

\* the integer part of x / unit^k
RECURSIVE WholePart(_, _)
WholePart(x, i) == IF i > Len(x) THEN 0 ELSE x[i] + unit * WholePart(x, i + 1)

\* the number "%.1f" prints for the float64 x / unit^k: its integer part and
\* one decimal, rounded to nearest, ties to the even decimal
Fixed1(x, k) ==
    LET prod  == TimesTen(SubSeq(x, 1, k), 1, 0)
        tenth == prod[k + 1]
        more  == \/ prod[k] > unit \div 2
                 \/ prod[k] = unit \div 2 /\ \E i \in 1..(k - 1) : prod[i] # 0
        tie   == prod[k] = unit \div 2 /\ \A i \in 1..(k - 1) : prod[i] = 0
        up    == more \/ (tie /\ tenth % 2 = 1)
        t1    == IF up THEN tenth + 1 ELSE tenth
        whole == WholePart(x, k + 1)
    IN  IF t1 = 10 THEN [whole |-> whole + 1, tenth |-> 0]
        ELSE [whole |-> whole, tenth |-> t1]

\* the scaled value and the unit index of a count of at least unit bytes
Scaled(bytes) ==
    LET exp == UnitLoop(DivUnit(bytes), 0)
        f   == Fixed1(ToFloat64(bytes), exp + 1)
    IN  [whole |-> f.whole, tenth |-> f.tenth, exp |-> exp]

\* fmt.Sprintf("%.1f %cB", ..., "KMGTPE"[exp]); an index past the string panics
SprintScaled(p) ==
    IF p.exp >= Len(UnitLetters) THEN "panic: index out of range"
    ELSE ToString(p.whole) \o "." \o ToString(p.tenth) \o " "
            \o UnitLetters[p.exp + 1] \o "B"

formatSize(bytes) ==
    IF BelowUnit(bytes) THEN ToString(bytes[1]) \o " B"
    ELSE SprintScaled(Scaled(bytes))

(***************************************************************************)
(* State.                                                                  *)
(***************************************************************************)
VARIABLES
    fs,            \* the filesystem under os.Args[1]
    heap,          \* the DirInfo objects allocated so far
    currentRoot,   \* global: root reference for progress updates
    progressChan,  \* global: buffered channel of scanProgressMsg
    sc,            \* the scan goroutine: position and locals of the root call
    scanMsgs,      \* scanCompleteMsg returned and not yet handled
    scanTicks,     \* scanTick commands running
    deleteTasks,   \* deleteFile commands running (their targets)
    deleteMsgs,    \* deleteCompleteMsg returned and not yet handled
    deleteTicks,   \* deleteProgress ticks pending
    m,             \* the Bubble Tea model
    proc,          \* "running", "quit" (tea.Quit), "panic"
    lastPublish,   \* outcome of the scanner's latest select on progressChan
    deletesStarted, \* delete requests made so far
    formatArg,     \* the byte count handed to formatSize
    formatOut      \* the string formatSize returned for it, "" before the call

vars == << fs, heap, currentRoot, progressChan, sc, scanMsgs, scanTicks,
           deleteTasks, deleteMsgs, deleteTicks, m, proc, lastPublish,
           deletesStarted, formatArg, formatOut >>

\* initialModel(path); width, height, startTime and deleteSpinner are read by
\* View only and are left out
initialModel ==
    [rootDir |-> Nil, currentDir |-> Nil, cursor |-> 0, scanning |-> TRUE,
     scanError |-> FALSE, sortBy |-> "size",
     statusMsg |-> [text |-> "", arg |-> << >>], statusExpiry |-> 0,
     deleting |-> FALSE, deleteTarget |-> Nil,
     deleteFilename |-> << >>, scanProgress |-> Nil,
     filesScanned |-> 0, dirsScanned |-> 0, totalSize |-> 0]

\* scanDirectory's locals before the walk
ScanLocals0 ==
    [pc |-> "start", entries |-> << >>, idx |-> 1, totalSize |-> 0,
     filesScanned |-> 0, dirsScanned |-> 0]

\* p.Run(): Init() returns tea.Batch(scanDirectory, scanTick)
InitOn(f) ==
    /\ fs = f
    /\ heap = EmptyHeap
    /\ currentRoot = Nil
    /\ progressChan = << >>
    /\ sc = ScanLocals0
    /\ scanMsgs = << >>
    /\ scanTicks = 1
    /\ deleteTasks = << >>
    /\ deleteMsgs = << >>
    /\ deleteTicks = 0
    /\ m = initialModel
    /\ proc = "running"
    /\ lastPublish = "none"
    /\ deletesStarted = 0

\* nothing is being formatted
NoFormat == formatArg = Int64(0) /\ formatOut = ""

Init == (\E f \in Scenarios : InitOn(f)) /\ NoFormat

InitWide == InitOn(WideTree) /\ NoFormat

(***************************************************************************)
(* The scan goroutine.                                                     *)
(***************************************************************************)
ScanProgressMsg(root, files, dirs, total) ==
    [root |-> root, filesScanned |-> files, dirsScanned |-> dirs, totalSize |-> total]

\* a send that makes room by discarding the oldest snapshot
TrySendDropOldest(chan, msg) ==
    IF Len(chan) < ChanCap THEN Append(chan, msg) ELSE Append(Tail(chan), msg)

\* select { case progressChan <- msg: default: }
TrySend(chan, msg) == IF Len(chan) < ChanCap THEN Append(chan, msg) ELSE chan

SendOutcome(chan) == IF Len(chan) < ChanCap THEN "sent" ELSE "dropped"

\* the accumulator of the root call, read back from the root node under construction
RootAcc ==
    [nodes |-> [n \in (DOMAIN heap) \ {RootId} |-> heap[n]],
     children |-> heap[RootId].Children,
     totalSize |-> sc.totalSize,
     files |-> sc.filesScanned,
     dirs |-> sc.dirsScanned]

\* scanDirectory up to the first loop iteration of the root call
ScanStart ==
    /\ proc = "running"
    /\ sc.pc = "start"
    /\ UNCHANGED << formatArg, formatOut, fs, progressChan, scanTicks, deleteTasks, deleteMsgs,
                    deleteTicks, m, proc, lastPublish, deletesStarted >>
    /\ IF fs[RootId].statErr
       THEN /\ scanMsgs' = Append(scanMsgs, [root |-> Nil, err |-> TRUE])
            /\ sc' = [sc EXCEPT !.pc = "done"]
            /\ UNCHANGED << heap, currentRoot >>
       ELSE LET node == NewDirInfo(RootPath, Nil, fs[RootId].isDir)
                r == IF ~fs[RootId].isDir
                     THEN FileResult(RootId, node, fs[RootId].size)
                     ELSE IF fs[RootId].listErr
                          THEN ListFailure(RootId, node)
                          ELSE WalkResult(FALSE, RootId :> node, 0, 1)
                looping == fs[RootId].isDir /\ ~fs[RootId].listErr
            IN  /\ currentRoot' = RootId
                /\ heap' = r.nodes
                /\ sc' = [sc EXCEPT !.pc = IF r.err THEN "done"
                                           ELSE IF looping THEN "loop" ELSE "final",
                                    !.entries = IF looping THEN ReadDir(fs, RootId) ELSE << >>,
                                    !.filesScanned = r.files,
                                    !.dirsScanned = r.dirs]
                /\ scanMsgs' = IF r.err
                               THEN Append(scanMsgs, [root |-> Nil, err |-> TRUE])
                               ELSE scanMsgs

\* one iteration of the root call's loop, with the progress update
ScanRootChild ==
    /\ proc = "running"
    /\ sc.pc = "loop"
    /\ sc.idx <= Len(sc.entries)
    /\ LET acc == LoopBody(fs, RootId, RootPath, RootAcc, sc.entries[sc.idx])
           attached == Len(acc.children) > Len(heap[RootId].Children)
           msg == ScanProgressMsg(currentRoot, acc.files, acc.dirs, acc.totalSize)
       IN  /\ heap' = (RootId :> [heap[RootId] EXCEPT
                                     !.Children = acc.children,
                                     !.Size = IF attached THEN acc.totalSize ELSE @])
                      @@ acc.nodes
           /\ sc' = [sc EXCEPT !.idx = @ + 1, !.totalSize = acc.totalSize,
                               !.filesScanned = acc.files, !.dirsScanned = acc.dirs]
           /\ progressChan' = IF attached THEN TrySend(progressChan, msg) ELSE progressChan
           /\ lastPublish' = IF attached THEN SendOutcome(progressChan) ELSE lastPublish
    /\ UNCHANGED << formatArg, formatOut, fs, currentRoot, scanMsgs, scanTicks, deleteTasks, deleteMsgs,
                    deleteTicks, m, proc, deletesStarted >>

\* the root call after its loop: total size and sort
ScanRootFinish ==
    /\ proc = "running"
    /\ sc.pc = "loop"
    /\ sc.idx > Len(sc.entries)
    /\ LET acc == RootAcc
       IN  heap' = FinishDir(RootId, heap[RootId], acc) @@ heap
    /\ sc' = [sc EXCEPT !.pc = "final"]
    /\ UNCHANGED << formatArg, formatOut, fs, currentRoot, progressChan, scanMsgs, scanTicks, deleteTasks,
                    deleteMsgs, deleteTicks, m, proc, lastPublish, deletesStarted >>

\* scanDirectory after the walk: final progress update, then scanCompleteMsg
ScanFinal ==
    /\ proc = "running"
    /\ sc.pc = "final"
    /\ LET msg == ScanProgressMsg(currentRoot, sc.filesScanned, sc.dirsScanned,
                                  heap[currentRoot].Size)
       IN  /\ progressChan' = IF currentRoot # Nil THEN TrySend(progressChan, msg)
                              ELSE progressChan
           /\ lastPublish' = IF currentRoot # Nil THEN SendOutcome(progressChan)
                             ELSE lastPublish
    /\ scanMsgs' = Append(scanMsgs, [root |-> RootId, err |-> FALSE])
    /\ sc' = [sc EXCEPT !.pc = "done"]
    /\ UNCHANGED << formatArg, formatOut, fs, heap, currentRoot, scanTicks, deleteTasks, deleteMsgs,
                    deleteTicks, m, proc, deletesStarted >>

ScanStep == ScanStart \/ ScanRootChild \/ ScanRootFinish \/ ScanFinal

(***************************************************************************)
(* model.Update.  A handler returns the new model, the new heap and the    *)
(* command; cursor c addresses Children[c + 1] (sequences start at 1).     *)
(***************************************************************************)
Ret(mm, h, cmd) == [m |-> mm, heap |-> h, cmd |-> cmd]

\* len(dir.Children)
NumChildren(h, dir) == Len(h[dir].Children)

\* dir.Children[i] is in range
InRange(h, dir, i) == i >= 0 /\ i < NumChildren(h, dir)

\* a handler that stores the root and leaves the browsing position unset
UpdateScanCompleteRootOnly(mm, msg) ==
    [mm EXCEPT !.scanning = FALSE, !.rootDir = msg.root,
               !.scanError = msg.err, !.scanProgress = Nil]

\* case scanCompleteMsg
UpdateScanComplete(mm, msg) ==
    [mm EXCEPT !.scanning = FALSE, !.rootDir = msg.root, !.currentDir = msg.root,
               !.scanError = msg.err, !.scanProgress = Nil]

\* case scanTickMsg, with a snapshot pending on progressChan
TakeProgress(mm, progress) ==
    [mm EXCEPT !.scanProgress = progress.root,
               !.filesScanned = progress.filesScanned,
               !.dirsScanned = progress.dirsScanned,
               !.totalSize = progress.totalSize]

\* a tick that goes on polling after the scan has completed
UpdateScanTickForever(mm, chan) ==
    IF chan # << >>
    THEN [m |-> TakeProgress(mm, Head(chan)), chan |-> Tail(chan), cmd |-> "scanTick"]
    ELSE [m |-> mm, chan |-> chan, cmd |-> "scanTick"]

\* a tick that empties the channel and shows the newest snapshot
UpdateScanTickDrainAll(mm, chan) ==
    IF mm.scanning
    THEN IF chan # << >>
         THEN [m |-> TakeProgress(mm, chan[Len(chan)]), chan |-> << >>, cmd |-> "scanTick"]
         ELSE [m |-> mm, chan |-> chan, cmd |-> "scanTick"]
    ELSE [m |-> mm, chan |-> chan, cmd |-> "nil"]

\* case scanTickMsg: the model, the channel and the command
UpdateScanTick(mm, chan) ==
    IF mm.scanning
    THEN IF chan # << >>
         THEN [m |-> TakeProgress(mm, Head(chan)), chan |-> Tail(chan), cmd |-> "scanTick"]
         ELSE [m |-> mm, chan |-> chan, cmd |-> "scanTick"]
    ELSE [m |-> mm, chan |-> chan, cmd |-> "nil"]

\* case deleteProgressMsg (the spinner frame it advances is read by View only
\* and is not part of this model)
UpdateDeleteProgress(mm) ==
    IF mm.deleting
    THEN [m |-> mm, cmd |-> "deleteProgress"]
    ELSE [m |-> mm, cmd |-> "nil"]

\* the sum loop of recalculateSizes
RECURSIVE SumSizes(_, _, _)
SumSizes(h, children, i) ==
    IF i > Len(children) THEN 0
    ELSE h[children[i]].Size + SumSizes(h, children, i + 1)

\* a recalculation that stops at dir and leaves its ancestors stale
recalculateSizesLocal(h, dir) ==
    IF dir = Nil THEN h
    ELSE [h EXCEPT ![dir].Size = SumSizes(h, h[dir].Children, 1)]

\* recalculateSizes(dir): dir and then its ancestors
RECURSIVE recalculateSizes(_, _)
recalculateSizes(h, dir) ==
    IF dir = Nil THEN h
    ELSE LET h1 == [h EXCEPT ![dir].Size = SumSizes(h, h[dir].Children, 1)]
         IN  IF h1[dir].Parent # Nil THEN recalculateSizes(h1, h1[dir].Parent) ELSE h1

\* index of the first occurrence of node in children, 0 if there is none
RECURSIVE IndexFrom(_, _, _)
IndexFrom(children, node, i) ==
    IF i > Len(children) THEN 0
    ELSE IF children[i] = node THEN i
    ELSE IndexFrom(children, node, i + 1)

IndexOf(children, node) == IndexFrom(children, node, 1)

\* a removal that shifts the tail down and keeps the old length
RemoveAtKeepLength(children, i) ==
    SubSeq(children, 1, i - 1) \o SubSeq(children, i + 1, Len(children))
        \o << children[Len(children)] >>

\* append(children[:i], children[i+1:]...)
RemoveAt(children, i) ==
    SubSeq(children, 1, i - 1) \o SubSeq(children, i + 1, Len(children))

\* a clamp that steps back after every removal
ClampCursorAlways(cursor, n) == IF cursor > 0 THEN cursor - 1 ELSE cursor

\* the cursor after a removal that left n children
ClampCursor(cursor, n) == IF cursor >= n /\ cursor > 0 THEN cursor - 1 ELSE cursor

\* case deleteCompleteMsg, err == nil: "Remove from parent's children"
RemoveTarget(mm, h, target) ==
    IF mm.currentDir # Nil /\ NumChildren(h, mm.currentDir) > 0
    THEN LET i  == IndexOf(h[mm.currentDir].Children, target)
             h1 == IF i = 0 THEN h
                   ELSE [h EXCEPT ![mm.currentDir].Children = RemoveAt(@, i)]
             c1 == IF i = 0 THEN mm.cursor
                   ELSE ClampCursor(mm.cursor, NumChildren(h1, mm.currentDir))
         IN  [m |-> [mm EXCEPT !.cursor = c1],
              heap |-> recalculateSizes(h1, mm.currentDir)]
    ELSE [m |-> mm, heap |-> h]

\* a handler that detaches the target whatever the outcome of the removal
UpdateDeleteCompleteAlways(mm, h, msg) ==
    LET m0 == [mm EXCEPT !.deleting = FALSE,
                         !.statusMsg = IF msg.err
                                       THEN [text |-> "Error deleting", arg |-> << >>]
                                       ELSE [text |-> "Deleted", arg |-> msg.filename],
                         !.statusExpiry = IF msg.err THEN ErrorTTL ELSE DeletedTTL]
        r  == RemoveTarget(m0, h, msg.target)
    IN  Ret(r.m, r.heap, "nil")

\* case deleteCompleteMsg
UpdateDeleteComplete(mm, h, msg) ==
    LET m0 == [mm EXCEPT !.deleting = FALSE]
    IN  IF msg.err
        THEN Ret([m0 EXCEPT !.statusMsg = [text |-> "Error deleting", arg |-> << >>],
                            !.statusExpiry = ErrorTTL], h, "nil")
        ELSE LET m1 == [m0 EXCEPT !.statusMsg = [text |-> "Deleted", arg |-> msg.filename],
                                  !.statusExpiry = DeletedTTL]
                 r  == RemoveTarget(m1, h, msg.target)
             IN  Ret(r.m, r.heap, "nil")

\* a sort of the Children of dir alone
sortChildrenShallow(h, mode, dir) ==
    IF dir = Nil THEN h
    ELSE [h EXCEPT ![dir].Children = SortSlice(h, mode, h[dir].Children)]

\* m.sortChildren(dir): sort dir.Children by m.sortBy, then every child
RECURSIVE sortChildren(_, _, _)
RECURSIVE SortEach(_, _, _, _)
SortEach(h, mode, children, i) ==
    IF i > Len(children) THEN h
    ELSE SortEach(sortChildren(h, mode, children[i]), mode, children, i + 1)

sortChildren(h, mode, dir) ==
    IF dir = Nil THEN h
    ELSE LET sorted == SortSlice(h, mode, h[dir].Children)
         IN  SortEach([h EXCEPT ![dir].Children = sorted], mode, sorted, 1)

\* a gate that forgets the delete in progress
GatedScanOnly(mm) == mm.scanning

\* the key gate: while scanning or deleting only quit is honoured
Gated(mm) == mm.scanning \/ mm.deleting

QuitKeys == {"ctrl+c", "q"}
UpKeys == {"up", "k"}
DownKeys == {"down", "j"}
EnterKeys == {"enter", "right", "l"}
ExitKeys == {"left", "h", "backspace"}
Keys == QuitKeys \cup UpKeys \cup DownKeys \cup EnterKeys \cup ExitKeys
            \cup {"s", "home", "d", "x"}

KeyUp(mm, h) ==
    Ret(IF mm.cursor > 0 THEN [mm EXCEPT !.cursor = @ - 1] ELSE mm, h, "nil")

\* a move down that stops one step past the last entry
KeyDownPastEnd(mm, h) ==
    Ret(IF mm.currentDir # Nil /\ mm.cursor < NumChildren(h, mm.currentDir)
        THEN [mm EXCEPT !.cursor = @ + 1] ELSE mm, h, "nil")

KeyDown(mm, h) ==
    Ret(IF mm.currentDir # Nil /\ mm.cursor < NumChildren(h, mm.currentDir) - 1
        THEN [mm EXCEPT !.cursor = @ + 1] ELSE mm, h, "nil")

\* an enter that descends into every directory, the empty ones included
KeyEnterAnyDir(mm, h) ==
    IF mm.currentDir # Nil /\ NumChildren(h, mm.currentDir) > 0
    THEN IF ~InRange(h, mm.currentDir, mm.cursor) THEN Ret(mm, h, "panic")
         ELSE LET selected == h[mm.currentDir].Children[mm.cursor + 1]
              IN  IF h[selected].IsDir
                  THEN Ret([mm EXCEPT !.currentDir = selected, !.cursor = 0], h, "nil")
                  ELSE Ret(mm, h, "nil")
    ELSE Ret(mm, h, "nil")

KeyEnter(mm, h) ==
    IF mm.currentDir # Nil /\ NumChildren(h, mm.currentDir) > 0
    THEN IF ~InRange(h, mm.currentDir, mm.cursor) THEN Ret(mm, h, "panic")
         ELSE LET selected == h[mm.currentDir].Children[mm.cursor + 1]
              IN  IF h[selected].IsDir /\ NumChildren(h, selected) > 0
                  THEN Ret([mm EXCEPT !.currentDir = selected, !.cursor = 0], h, "nil")
                  ELSE Ret(mm, h, "nil")
    ELSE Ret(mm, h, "nil")

\* an exit that goes up and puts the cursor on the first entry
KeyExitCursorReset(mm, h) ==
    IF mm.currentDir # Nil /\ h[mm.currentDir].Parent # Nil
    THEN Ret([mm EXCEPT !.cursor = 0, !.currentDir = h[mm.currentDir].Parent], h, "nil")
    ELSE Ret(mm, h, "nil")

KeyExit(mm, h) ==
    IF mm.currentDir # Nil /\ h[mm.currentDir].Parent # Nil
    THEN LET parent == h[mm.currentDir].Parent
             i == IndexOf(h[parent].Children, mm.currentDir)
         IN  Ret([mm EXCEPT !.cursor = IF i = 0 THEN @ ELSE i - 1,
                            !.currentDir = parent], h, "nil")
    ELSE Ret(mm, h, "nil")

\* a toggle that re-sorts the tree only when it switches to name order
KeySortNameOnly(mm, h) ==
    LET mode == IF mm.sortBy = "size" THEN "name" ELSE "size"
    IN  Ret([mm EXCEPT !.sortBy = mode, !.cursor = 0],
            IF mode = "name" THEN sortChildren(h, mode, mm.rootDir) ELSE h, "nil")

KeySort(mm, h) ==
    LET mode == IF mm.sortBy = "size" THEN "name" ELSE "size"
    IN  Ret([mm EXCEPT !.sortBy = mode, !.cursor = 0],
            sortChildren(h, mode, mm.rootDir), "nil")

KeyHome(mm, h) ==
    Ret([mm EXCEPT !.currentDir = mm.rootDir, !.cursor = 0], h, "nil")

\* a delete that reads currentDir.Children without the nil check
KeyDeleteNoNilCheck(mm, h) ==
    IF mm.currentDir = Nil THEN Ret(mm, h, "panic")
    ELSE IF NumChildren(h, mm.currentDir) > 0
    THEN IF ~InRange(h, mm.currentDir, mm.cursor) THEN Ret(mm, h, "panic")
         ELSE LET target == h[mm.currentDir].Children[mm.cursor + 1]
              IN  Ret([mm EXCEPT !.deleteTarget = target,
                                 !.deleteFilename = Base(h[target].Path),
                                 !.deleting = TRUE], h, "delete")
    ELSE Ret(mm, h, "nil")

KeyDelete(mm, h) ==
    IF mm.currentDir # Nil /\ NumChildren(h, mm.currentDir) > 0
    THEN IF ~InRange(h, mm.currentDir, mm.cursor) THEN Ret(mm, h, "panic")
         ELSE LET target == h[mm.currentDir].Children[mm.cursor + 1]
              IN  Ret([mm EXCEPT !.deleteTarget = target,
                                 !.deleteFilename = Base(h[target].Path),
                                 !.deleting = TRUE], h, "delete")
    ELSE Ret(mm, h, "nil")

\* the switch on the key of a session that is neither scanning nor deleting
KeySwitch(mm, h, key) ==
    CASE key \in QuitKeys  -> Ret(mm, h, "Quit")
      [] key \in UpKeys    -> KeyUp(mm, h)
      [] key \in DownKeys  -> KeyDown(mm, h)
      [] key \in EnterKeys -> KeyEnter(mm, h)
      [] key \in ExitKeys  -> KeyExit(mm, h)
      [] key = "s"         -> KeySort(mm, h)
      [] key = "home"      -> KeyHome(mm, h)
      [] key = "d"         -> KeyDelete(mm, h)
      [] OTHER             -> Ret(mm, h, "nil")

\* a key handler whose gate swallows every key while a delete is running
UpdateKeyGateAll(mm, h, key) ==
    IF Gated(mm)
    THEN IF key \in QuitKeys /\ ~mm.deleting THEN Ret(mm, h, "Quit") ELSE Ret(mm, h, "nil")
    ELSE KeySwitch(mm, h, key)

\* a key handler whose gate lets the sort toggle through
UpdateKeySortUngated(mm, h, key) ==
    IF Gated(mm) /\ key # "s"
    THEN IF key \in QuitKeys THEN Ret(mm, h, "Quit") ELSE Ret(mm, h, "nil")
    ELSE KeySwitch(mm, h, key)

\* a key handler whose gate lets the home key through
UpdateKeyHomeUngated(mm, h, key) ==
    IF Gated(mm) /\ key # "home"
    THEN IF key \in QuitKeys THEN Ret(mm, h, "Quit") ELSE Ret(mm, h, "nil")
    ELSE KeySwitch(mm, h, key)

\* case tea.KeyMsg
UpdateKey(mm, h, key) ==
    IF Gated(mm)
    THEN IF key \in QuitKeys THEN Ret(mm, h, "Quit") ELSE Ret(mm, h, "nil")
    ELSE KeySwitch(mm, h, key)

\* View while scanning: the children listed under "Largest items found", read
\* through m.scanProgress
Preview(mm, h) ==
    IF mm.scanProgress = Nil THEN << >>
    ELSE LET children == h[mm.scanProgress].Children
             limit == IF Len(children) < PreviewLimit THEN Len(children)
                      ELSE PreviewLimit
         IN  SubSeq(children, 1, limit)

\* the screen View renders: its early returns in order
ViewScreen(mm) ==
    CASE mm.scanning      -> "scanning"
      [] mm.scanError     -> "error"
      [] mm.rootDir = Nil -> "no data"
      [] OTHER            -> "browser"

(***************************************************************************)
(* The event loop: one action per message delivered to Update, and the     *)
(* commands running in the background.                                     *)
(***************************************************************************)
\* the key msg is delivered
Key(key) ==
    /\ proc = "running"
    /\ LET r == UpdateKey(m, heap, key)
       IN  /\ r.cmd = "delete" => deletesStarted < MaxDeletes
           /\ m' = r.m
           /\ heap' = r.heap
           /\ proc' = CASE r.cmd = "Quit" -> "quit"
                        [] r.cmd = "panic" -> "panic"
                        [] OTHER -> proc
           /\ deleteTasks' = IF r.cmd = "delete"
                             THEN Append(deleteTasks, r.m.deleteTarget) ELSE deleteTasks
           /\ deleteTicks' = IF r.cmd = "delete" THEN deleteTicks + 1 ELSE deleteTicks
           /\ deletesStarted' = IF r.cmd = "delete" THEN deletesStarted + 1
                                ELSE deletesStarted
    /\ UNCHANGED << formatArg, formatOut, fs, currentRoot, progressChan, sc, scanMsgs, scanTicks,
                    deleteMsgs, lastPublish >>

\* a key press
KeyPress == \E key \in Keys : Key(key)

\* scanCompleteMsg is delivered
ScanComplete ==
    /\ proc = "running"
    /\ scanMsgs # << >>
    /\ m' = UpdateScanComplete(m, Head(scanMsgs))
    /\ scanMsgs' = Tail(scanMsgs)
    /\ UNCHANGED << formatArg, formatOut, fs, heap, currentRoot, progressChan, sc, scanTicks, deleteTasks,
                    deleteMsgs, deleteTicks, proc, lastPublish, deletesStarted >>

\* scanTick has slept a second and scanTickMsg is delivered
ScanTick ==
    /\ proc = "running"
    /\ scanTicks > 0
    /\ LET r == UpdateScanTick(m, progressChan)
       IN  /\ m' = r.m
           /\ progressChan' = r.chan
           /\ scanTicks' = IF r.cmd = "scanTick" THEN scanTicks ELSE scanTicks - 1
    /\ UNCHANGED << formatArg, formatOut, fs, heap, currentRoot, sc, scanMsgs, deleteTasks, deleteMsgs,
                    deleteTicks, proc, lastPublish, deletesStarted >>

\* a deleteFile command runs os.RemoveAll and returns its message
DeleteFileRun ==
    /\ proc = "running"
    /\ deleteTasks # << >>
    /\ \E err \in BOOLEAN :
        deleteMsgs' = Append(deleteMsgs,
                             [target |-> Head(deleteTasks), err |-> err,
                              filename |-> Base(heap[Head(deleteTasks)].Path)])
    /\ deleteTasks' = Tail(deleteTasks)
    /\ UNCHANGED << formatArg, formatOut, fs, heap, currentRoot, progressChan, sc, scanMsgs, scanTicks,
                    deleteTicks, m, proc, lastPublish, deletesStarted >>

\* deleteCompleteMsg is delivered
DeleteComplete ==
    /\ proc = "running"
    /\ deleteMsgs # << >>
    /\ LET r == UpdateDeleteComplete(m, heap, Head(deleteMsgs))
       IN  /\ m' = r.m
           /\ heap' = r.heap
    /\ deleteMsgs' = Tail(deleteMsgs)
    /\ UNCHANGED << formatArg, formatOut, fs, currentRoot, progressChan, sc, scanMsgs, scanTicks,
                    deleteTasks, deleteTicks, proc, lastPublish, deletesStarted >>

\* a deleteProgress tick fires and deleteProgressMsg is delivered
DeleteProgress ==
    /\ proc = "running"
    /\ deleteTicks > 0
    /\ LET r == UpdateDeleteProgress(m)
       IN  /\ m' = r.m
           /\ deleteTicks' = IF r.cmd = "deleteProgress" THEN deleteTicks
                             ELSE deleteTicks - 1
    /\ UNCHANGED << formatArg, formatOut, fs, heap, currentRoot, progressChan, sc, scanMsgs, scanTicks,
                    deleteTasks, deleteMsgs, proc, lastPublish, deletesStarted >>

Next ==
    \/ ScanStart
    \/ ScanRootChild
    \/ ScanRootFinish
    \/ ScanFinal
    \/ ScanComplete
    \/ ScanTick
    \/ KeyPress
    \/ DeleteFileRun
    \/ DeleteComplete
    \/ DeleteProgress

Spec == Init /\ [][Next]_vars

\* the scanning phase on the wide root: the scan goroutine, the tick chain, the
\* completion message and the quit key
KeyQuit == \E key \in QuitKeys : Key(key)

NextScan ==
    \/ ScanStart
    \/ ScanRootChild
    \/ ScanRootFinish
    \/ ScanFinal
    \/ ScanComplete
    \/ ScanTick
    \/ KeyQuit

SpecScan == InitWide /\ [][NextScan]_vars

\* the scanning phase on the root of MaxInsertion + 1 files
InitTies == InitOn(TieWide) /\ NoFormat

SpecTies == InitTies /\ [][NextScan]_vars

\* the scan goroutine can take a step: none of its steps waits for anything
ScanEnabled == proc = "running" /\ sc.pc # "done"

\* weak fairness of the scan goroutine, WF_vars(ScanStep), with
\* ENABLED <<ScanStep>>_vars written out as ScanEnabled: a goroutine that can
\* run is scheduled; nothing is assumed of the ticks and the keys
ScanFairness == []<>(~ScanEnabled) \/ []<><<ScanStep>>_vars

\* the scanning phase with a scan goroutine that is scheduled whenever it can run
FairSpecScan == SpecScan /\ ScanFairness

\* a tick that changes the state can be delivered
TickEnabled ==
    proc = "running" /\ scanTicks > 0 /\ (~m.scanning \/ progressChan # << >>)

\* weak fairness of the tick, WF_vars(ScanTick), with ENABLED <<ScanTick>>_vars
\* written out as TickEnabled: scanTick returns its message after one second
\* and the runtime delivers it
TickFairness == []<>(~TickEnabled) \/ []<><<ScanTick>>_vars

\* the session with a tick that is delivered whenever one is pending
FairSpecTick == Spec /\ TickFairness

(***************************************************************************)
(* formatSize on its own: View formats the sizes it shows; here the byte   *)
(* count is drawn from the int64 values around the unit boundaries and the *)
(* rounding boundaries of the decimal.                                     *)
(***************************************************************************)
\* how far around a boundary the inputs are taken
FormatSpread == 3

\* values of the digit below the leading one: around 0, 1/4, 1/2, 3/4 and 1
\* (the ties of the decimal are at 1/4 and 3/4) and around 1/20 and 19/20
FracSamples ==
    LET q == unit \div 4
    IN  {b + d : b \in {0, q, 2 * q, 3 * q}, d \in 0..FormatSpread}
            \cup {b - d : b \in {q, 2 * q, 3 * q, unit}, d \in 1..FormatSpread}
            \cup {unit \div 20, unit \div 20 + 1, unit - unit \div 20 - 1,
                  unit - unit \div 20}

\* values of the leading digit when it is digit i
TopSamples(i) ==
    IF i = Int64Digits THEN 1..MaxTopDigit
    ELSE {1, 2, 9, 10, 99, 100, 999, 1000, unit - 1}

\* the digits below the two leading ones: all 0, all unit - 1, or a single 1
LowSamples == {"zero", "ones", "one"}

LowDigit(low, i) ==
    CASE low = "zero" -> 0
      [] low = "ones" -> unit - 1
      [] OTHER        -> IF i = 1 THEN 1 ELSE 0

\* the count whose leading digit is digit top with value t, followed by s
Sample(top, t, s, low) ==
    [i \in 1..Int64Digits |->
        IF i > top THEN 0
        ELSE IF i = top THEN t
        ELSE IF i = top - 1 THEN s
        ELSE LowDigit(low, i)]

FormatInputs ==
    {Int64(v) : v \in (0..FormatSpread) \cup ((unit - 1 - FormatSpread)..(unit - 1))}
        \cup UNION {{Sample(top, t, s, low) :
                        t \in TopSamples(top), s \in FracSamples, low \in LowSamples} :
                    top \in 2..Int64Digits}

InitFormat ==
    /\ InitOn(RootFile(0))
    /\ formatArg \in FormatInputs
    /\ formatOut = ""

\* formatSize(formatArg) is called and returns
FormatSize ==
    /\ formatOut = ""
    /\ formatOut' = formatSize(formatArg)
    /\ UNCHANGED << fs, heap, currentRoot, progressChan, sc, scanMsgs, scanTicks,
                    deleteTasks, deleteMsgs, deleteTicks, m, proc, lastPublish,
                    deletesStarted, formatArg >>

NextFormat == FormatSize

SpecFormat == InitFormat /\ [][NextFormat]_vars

(***************************************************************************)
(* Vocabulary of the properties.                                           *)
(***************************************************************************)
Range(s) == {s[i] : i \in 1..Len(s)}

\* the nodes reachable from n through Children
RECURSIVE Subtree(_, _)
Subtree(h, n) == {n} \cup UNION {Subtree(h, c) : c \in Range(h[n].Children)}

\* n and its ancestors through Parent
RECURSIVE Ancestors(_, _)
Ancestors(h, n) == IF n = Nil THEN {} ELSE {n} \cup Ancestors(h, h[n].Parent)

\* the sum of the Size of the nodes of a set
RECURSIVE SizeOver(_, _)
SizeOver(h, S) ==
    IF S = {} THEN 0
    ELSE LET x == CHOOSE y \in S : TRUE IN h[x].Size + SizeOver(h, S \ {x})

\* the sum of the Size of the children of n, each occurrence counted
ChildrenSize(h, n) ==
    LET c == h[n].Children
        RECURSIVE Upto(_)
        Upto(k) == IF k = 0 THEN 0 ELSE h[c[k]].Size + Upto(k - 1)
    IN  Upto(Len(c))

\* the scan delivered a tree and the session is browsing it
Browsing == ~m.scanning /\ m.rootDir # Nil

\* the step that delivers a deleteCompleteMsg without / with an error
DeleteSucceeds ==
    deleteMsgs # << >> /\ ~Head(deleteMsgs).err /\ deleteMsgs' = Tail(deleteMsgs)

DeleteFails ==
    deleteMsgs # << >> /\ Head(deleteMsgs).err /\ deleteMsgs' = Tail(deleteMsgs)

\* the step leaves the tree, the position and the cursor alone
TreeSame == heap' = heap /\ m'.currentDir = m.currentDir /\ m'.cursor = m.cursor

(***************************************************************************)
(* C1: once the scan has delivered a tree, every directory reachable from  *)
(* rootDir has Size equal to the sum of the Size of its current Children,  *)
(* whatever moves, enters, exits, sort toggles and deletes followed.       *)
(***************************************************************************)
C1_SizeIsSumOfChildren ==
    Browsing =>
        \A n \in Subtree(heap, m.rootDir) :
            heap[n].IsDir => heap[n].Size = ChildrenSize(heap, n)

\* a delete made below the root has completed and shrunk the tree
C1_Witness ==
    /\ Browsing
    /\ ~m.deleting
    /\ m.statusMsg.text = "Deleted"
    /\ m.currentDir # m.rootDir
    /\ m.deleteTarget \notin Subtree(heap, m.rootDir)
    /\ heap[m.deleteTarget].Size > 0

(***************************************************************************)
(* C2: a successful delete of child c (size s) of p removes c from         *)
(* p.Children and keeps the other children in order, lowers the Size of p  *)
(* and of each ancestor of p by exactly s, and decrements the cursor only  *)
(* if it pointed past the new end of p.Children.                           *)
(***************************************************************************)
C2_DeleteEffect ==
    [][DeleteSucceeds =>
        LET c == Head(deleteMsgs).target
            p == heap[c].Parent
            sz == heap[c].Size
            Keep(x) == x # c
        IN  /\ p # Nil
            /\ c \in Range(heap[p].Children)
            /\ heap'[p].Children = SelectSeq(heap[p].Children, Keep)
            /\ Len(heap'[p].Children) = Len(heap[p].Children) - 1
            /\ \A a \in Ancestors(heap, p) : heap'[a].Size = heap[a].Size - sz
            /\ m'.cursor \in {m.cursor, m.cursor - 1}
            /\ m'.cursor # m.cursor => m.cursor >= Len(heap'[p].Children)
            /\ (m.cursor >= Len(heap'[p].Children) /\ m.cursor > 0)
                   => m'.cursor = m.cursor - 1
    ]_vars

\* the last child of a directory below the root was deleted with the cursor on it
C2_Witness ==
    /\ Browsing
    /\ ~m.deleting
    /\ m.statusMsg.text = "Deleted"
    /\ heap[m.currentDir].Parent # Nil
    /\ heap[m.deleteTarget].Size > 0
    /\ m.deleteTarget \notin Range(heap[m.currentDir].Children)
    /\ m.cursor = Len(heap[m.currentDir].Children) - 1
    /\ m.cursor > 0

(***************************************************************************)
(* C3: a delete that completes with an error leaves the tree, currentDir   *)
(* and the cursor exactly as they were when it was requested; only         *)
(* deleting is cleared and a status message with an expiry is set, and the *)
(* session goes on accepting keys.                                         *)
(***************************************************************************)
C3_FailedDeleteKeepsTree ==
    [][/\ (~m.deleting /\ m'.deleting) => TreeSame
       /\ (m.deleting /\ ~DeleteSucceeds) => TreeSame
       /\ DeleteFails =>
            /\ m.deleting
            /\ m' = [m EXCEPT !.deleting = FALSE,
                              !.statusMsg = m'.statusMsg,
                              !.statusExpiry = m'.statusExpiry]
            /\ m'.statusMsg.text = "Error deleting"
            /\ m'.statusExpiry > 0
            /\ proc' = "running"
            /\ ~Gated(m')
    ]_vars

\* a delete has failed and its target is still where it was
C3_Witness ==
    /\ Browsing
    /\ ~m.deleting
    /\ proc = "running"
    /\ m.statusMsg.text = "Error deleting"
    /\ InRange(heap, m.currentDir, m.cursor)
    /\ heap[m.currentDir].Children[m.cursor + 1] = m.deleteTarget

(***************************************************************************)
(* C4: at most one delete task is in flight: from the 'd' key that starts  *)
(* a delete until its deleteCompleteMsg is handled, no key press starts    *)
(* another one.                                                            *)
(***************************************************************************)
C4_OneDeleteInFlight ==
    /\ Len(deleteTasks) + Len(deleteMsgs) <= 1
    /\ proc = "running" => (m.deleting <=> Len(deleteTasks) + Len(deleteMsgs) = 1)

\* a second delete is running after the first one was handled
C4_Witness ==
    /\ m.deleting
    /\ deletesStarted >= 2
    /\ Len(deleteTasks) = 1

(***************************************************************************)
(* C5: the tree is single-owner: while the scan goroutine can still write  *)
(* to the tree, the foreground holds no node of it.                        *)
(***************************************************************************)
C5_SingleOwner ==
    sc.pc \in {"start", "loop"} => m.scanProgress = Nil

(***************************************************************************)
(* C6: the scanner never waits on the progress channel: a send on a full   *)
(* channel drops the new snapshot and leaves the channel as it was, the    *)
(* scan completes even if no snapshot is ever drained, and a tick on an    *)
(* empty channel is handled without waiting.                               *)
(***************************************************************************)
C6_NeverBlocks ==
    /\ [](Len(progressChan) <= ChanCap)
    /\ [][(Len(progressChan) = ChanCap /\ sc' # sc) => progressChan' = progressChan]_vars
    /\ []((m.scanning /\ progressChan = << >>)
            => UpdateScanTick(m, progressChan)
                 = [m |-> m, chan |-> << >>, cmd |-> "scanTick"])
    /\ <>(sc.pc = "done" \/ proc # "running")

\* the scan completed with a full channel, snapshots dropped and none drained
C6_Witness ==
    /\ sc.pc = "done"
    /\ lastPublish = "dropped"
    /\ Len(progressChan) = ChanCap
    /\ m.scanning
    /\ m.scanProgress = Nil

(***************************************************************************)
(* C7: in every state of a running session, scanning, browsing, deleting   *)
(* or after a fatal scan error, a 'q' or ctrl+c key yields the Quit        *)
(* command in that same Update call and leaves the tree untouched.         *)
(***************************************************************************)
C7_QuitAlwaysHonoured ==
    proc = "running" =>
        \A key \in QuitKeys :
            LET r == UpdateKey(m, heap, key)
            IN  r.cmd = "Quit" /\ r.heap = heap /\ r.m = m

\* the session was quit while a delete task was still running
C7_Witness ==
    /\ proc = "quit"
    /\ m.deleting
    /\ deleteTasks # << >>

\* every entry of the filesystem can be stat'ed and every directory listed
FullyReadable(f) == \A i \in 1..Len(f) : ~f[i].statErr /\ ~f[i].listErr

\* the entries at or below entry i
RECURSIVE Under(_, _)
Under(f, i) == {i} \cup UNION {Under(f, j) : j \in {k \in 1..Len(f) : f[k].parent = i}}

FilesUnder(f, i) == {j \in Under(f, i) : ~f[j].isDir}

DirsUnder(f, i) == {j \in Under(f, i) : f[j].isDir}

\* the sum of the sizes of a set of entries
RECURSIVE EntrySize(_, _)
EntrySize(f, S) ==
    IF S = {} THEN 0
    ELSE LET x == CHOOSE y \in S : TRUE IN f[x].size + EntrySize(f, S \ {x})

\* the walk has returned and nothing was deleted since
ScanResult == sc.pc = "done" /\ deletesStarted = 0 /\ RootId \in DOMAIN heap

(***************************************************************************)
(* C8: the scan completes with a nil root and an error if and only if the  *)
(* stat of the scan root fails; a stat failure below the root or a listing *)
(* failure anywhere, the root included, still gives a root and no error.   *)
(***************************************************************************)
C8_FatalOnlyOnRootStat ==
    /\ \A i \in 1..Len(scanMsgs) :
          /\ (scanMsgs[i].root = Nil /\ scanMsgs[i].err) <=> fs[RootId].statErr
          /\ (scanMsgs[i].root # Nil /\ ~scanMsgs[i].err) <=> ~fs[RootId].statErr
    /\ sc.pc = "done" => (scanMsgs # << >> \/ ~m.scanning)
    /\ ~m.scanning =>
          /\ (m.rootDir = Nil /\ m.scanError) <=> fs[RootId].statErr
          /\ (m.rootDir # Nil /\ ~m.scanError) <=> ~fs[RootId].statErr

\* a scan that met a listing failure at its root was delivered with a root
C8_Witness ==
    /\ ~m.scanning
    /\ fs[RootId].listErr
    /\ m.rootDir = RootId
    /\ ~m.scanError
    /\ heap[m.rootDir].Error

(***************************************************************************)
(* C9: an entry below the root whose stat fails is absent from its         *)
(* parent's Children and adds nothing to the parent's Size, while all its  *)
(* readable siblings are scanned and attached; a directory whose listing   *)
(* fails stays in its parent's Children with Error set, Size 0 and no      *)
(* Children.                                                               *)
(***************************************************************************)
C9_PartialScan ==
    ScanResult =>
        \A p \in DOMAIN heap :
            LET listed == {i \in 1..Len(fs) : fs[i].parent = p}
                readable == {i \in listed : ~fs[i].statErr}
            IN  IF ~fs[p].isDir \/ fs[p].listErr
                THEN /\ heap[p].Children = << >>
                     /\ fs[p].isDir => (heap[p].Error /\ heap[p].Size = 0)
                     /\ heap[p].Parent # Nil => p \in Range(heap[heap[p].Parent].Children)
                ELSE /\ ~heap[p].Error
                     /\ Range(heap[p].Children) = readable
                     /\ Len(heap[p].Children) = Cardinality(readable)
                     /\ readable \subseteq DOMAIN heap
                     /\ \A i \in readable : heap[i].Parent = p
                     /\ \A i \in listed \ readable : i \notin DOMAIN heap
                     /\ heap[p].Size = SizeOver(heap, readable)

\* a scan has skipped an entry, kept its sibling and kept an unlistable directory
C9_Witness ==
    /\ ScanResult
    /\ \E i \in 2..Len(fs) :
          /\ fs[i].statErr
          /\ fs[i].parent \in DOMAIN heap
          /\ fs[i].parent # RootId
          /\ heap[fs[i].parent].Children # << >>
    /\ \E d \in DOMAIN heap : d # RootId /\ heap[d].Error

(***************************************************************************)
(* C10: on a fully readable tree of N files and M directories (the root    *)
(* included) a completed scan has counted N files and M directories, each  *)
(* entry once, and root.Size is the sum of the sizes of the N files.       *)
(***************************************************************************)
C10_ScanCounts ==
    (ScanResult /\ FullyReadable(fs)) =>
        /\ sc.filesScanned = Cardinality(FilesUnder(fs, RootId))
        /\ sc.dirsScanned = Cardinality(DirsUnder(fs, RootId))
        /\ DOMAIN heap = 1..Len(fs)
        /\ heap[RootId].Size = EntrySize(fs, FilesUnder(fs, RootId))
        /\ \A i \in 2..Len(fs) :
              LET r == calculateDirSizeWithProgress(fs, i, << >>, fs[i].parent)
              IN  /\ r.files = Cardinality(FilesUnder(fs, i))
                  /\ r.dirs = Cardinality(DirsUnder(fs, i))
                  /\ DOMAIN r.nodes = Under(fs, i)

\* a scan of three nested directories holding two files has completed
C10_Witness ==
    /\ ScanResult
    /\ FullyReadable(fs)
    /\ sc.filesScanned = 2
    /\ sc.dirsScanned = 3
    /\ heap[RootId].Size > 1

\* the step that delivers the scanCompleteMsg to Update
ScanDelivered == scanMsgs # << >> /\ scanMsgs' = Tail(scanMsgs)

(***************************************************************************)
(* C11: scan completion is signalled exactly once: scanDirectory returns   *)
(* one scanCompleteMsg when it is done and none before, carrying the root  *)
(* and no error or a nil root and the error; handling it clears scanning,  *)
(* sets rootDir and currentDir to that root with cursor 0 and sort mode    *)
(* size, and scanning never becomes true again.                            *)
(***************************************************************************)
C11_ScanCompleteOnce ==
    /\ [](Len(scanMsgs) + (IF m.scanning THEN 0 ELSE 1)
            = (IF sc.pc = "done" THEN 1 ELSE 0))
    /\ [](\A i \in 1..Len(scanMsgs) :
            \/ scanMsgs[i].root # Nil /\ ~scanMsgs[i].err
            \/ scanMsgs[i].root = Nil /\ scanMsgs[i].err)
    /\ [][ScanDelivered =>
            /\ m.scanning
            /\ ~m'.scanning
            /\ m'.rootDir = Head(scanMsgs).root
            /\ m'.currentDir = Head(scanMsgs).root
            /\ m'.scanError = Head(scanMsgs).err
            /\ m'.cursor = 0
            /\ m'.sortBy = "size"
       ]_vars
    /\ [][~m.scanning => ~m'.scanning]_vars

\* the one completion message of a scan that had shown progress was handled
C11_Witness ==
    /\ sc.pc = "done"
    /\ scanMsgs = << >>
    /\ ~m.scanning
    /\ m.rootDir = RootId
    /\ m.currentDir = RootId
    /\ m.filesScanned > 0

\* the session takes keys through the key switch
Accepting == proc = "running" /\ ~Gated(m)

\* there is a child under the cursor
HasSelected == m.currentDir # Nil /\ InRange(heap, m.currentDir, m.cursor)

\* the child under the cursor
Selected == heap[m.currentDir].Children[m.cursor + 1]

(***************************************************************************)
(* C12: enter changes the state only when the child under the cursor is a  *)
(* directory with at least one child: currentDir becomes that child and    *)
(* the cursor 0.  On a file, on an empty directory and in a directory      *)
(* without children it leaves the model and the tree as they are.          *)
(***************************************************************************)
C12_EnterFrame ==
    Accepting =>
        \A key \in EnterKeys :
            LET r == UpdateKey(m, heap, key)
            IN  /\ r.heap = heap
                /\ r.cmd = "nil"
                /\ IF HasSelected /\ heap[Selected].IsDir
                                  /\ heap[Selected].Children # << >>
                   THEN r.m = [m EXCEPT !.currentDir = Selected, !.cursor = 0]
                   ELSE r.m = m

\* inside a directory that was entered, the cursor is on a directory that a
\* delete has emptied
C12_Witness ==
    /\ Accepting
    /\ Browsing
    /\ m.currentDir # m.rootDir
    /\ HasSelected
    /\ heap[Selected].IsDir
    /\ heap[Selected].Children = << >>

(***************************************************************************)
(* C13: exit at the root leaves currentDir and the cursor as they are; and *)
(* whenever enter succeeds from directory p with the cursor on index i, an *)
(* exit made right after it is back at currentDir = p with cursor = i.     *)
(***************************************************************************)
C13_EnterExitRoundTrip ==
    Accepting =>
        /\ m.currentDir = m.rootDir =>
              \A key \in ExitKeys : UpdateKey(m, heap, key) = Ret(m, heap, "nil")
        /\ \A enter \in EnterKeys, exit \in ExitKeys :
              LET e == UpdateKey(m, heap, enter)
                  x == UpdateKey(e.m, e.heap, exit)
              IN  e.m.currentDir # m.currentDir =>
                      /\ x.m.currentDir = m.currentDir
                      /\ x.m.cursor = m.cursor
                      /\ x.m = m
                      /\ x.heap = heap

\* the session is inside a directory that was entered from an index above 0
C13_Witness ==
    /\ Accepting
    /\ Browsing
    /\ m.currentDir # m.rootDir
    /\ m.cursor = 0
    /\ IndexOf(heap[heap[m.currentDir].Parent].Children, m.currentDir) > 1

\* the children of n are listed largest first
NonIncreasing(h, n) ==
    \A i \in 1..(Len(h[n].Children) - 1) :
        h[h[n].Children[i]].Size >= h[h[n].Children[i + 1]].Size

\* h2 holds the nodes of h with the same fields, the order of Children aside
SameUpToOrder(h, h2) ==
    /\ DOMAIN h2 = DOMAIN h
    /\ \A n \in DOMAIN h :
          /\ [h2[n] EXCEPT !.Children = h[n].Children] = h[n]
          /\ Len(h2[n].Children) = Len(h[n].Children)
          /\ Range(h2[n].Children) = Range(h[n].Children)

(***************************************************************************)
(* C14: in sort mode size, two consecutive sort toggles return the mode to *)
(* size and leave every directory of the tree with the same children,      *)
(* listed by non-increasing Size.                                          *)
(***************************************************************************)
C14_ToggleTwice ==
    (Accepting /\ Browsing /\ m.sortBy = "size") =>
        LET r1 == UpdateKey(m, heap, "s")
            r2 == UpdateKey(r1.m, r1.heap, "s")
        IN  /\ r1.m.sortBy = "name"
            /\ r2.m.sortBy = "size"
            /\ SameUpToOrder(heap, r1.heap)
            /\ SameUpToOrder(heap, r2.heap)
            /\ \A n \in Subtree(r2.heap, m.rootDir) : NonIncreasing(r2.heap, n)

\* the tree is as the scan delivered it, its name order differs from its size
\* order, and the two toggles bring back a size order with the ties swapped
C14_Witness ==
    /\ Accepting
    /\ Browsing
    /\ m.sortBy = "size"
    /\ deletesStarted = 0
    /\ LET r1 == UpdateKey(m, heap, "s")
           r2 == UpdateKey(r1.m, r1.heap, "s")
       IN  r1.heap # heap /\ r2.heap # heap

(***************************************************************************)
(* C15: the cursor is a valid index in every reachable state: 0 when       *)
(* currentDir is nil or has no children, and otherwise between 0 and       *)
(* len(currentDir.Children) - 1; so currentDir.Children[cursor], as enter  *)
(* and delete index it, is never out of range.                             *)
(***************************************************************************)
C15_CursorValid ==
    /\ proc # "panic"
    /\ IF m.currentDir = Nil \/ heap[m.currentDir].Children = << >>
       THEN m.cursor = 0
       ELSE InRange(heap, m.currentDir, m.cursor)
    /\ Accepting =>
          \A key \in EnterKeys \cup {"d"} : UpdateKey(m, heap, key).cmd # "panic"

\* a delete emptied the directory the session is in, below the root
C15_Witness ==
    /\ Browsing
    /\ ~m.deleting
    /\ m.statusMsg.text = "Deleted"
    /\ m.currentDir # m.rootDir
    /\ heap[m.currentDir].Children = << >>
    /\ m.cursor = 0

\* how many times x occurs in s
Occurrences(s, x) == Cardinality({i \in 1..Len(s) : s[i] = x})

(***************************************************************************)
(* C16: after scan completion rootDir.Parent is nil and every other node   *)
(* reachable from rootDir has a Parent that is reachable from rootDir and  *)
(* holds the node exactly once in its Children; sort toggles and deletes   *)
(* keep it so.                                                             *)
(***************************************************************************)
C16_TreeShape ==
    Browsing =>
        /\ heap[m.rootDir].Parent = Nil
        /\ \A n \in Subtree(heap, m.rootDir) \ {m.rootDir} :
              /\ heap[n].Parent # Nil
              /\ heap[n].Parent \in Subtree(heap, m.rootDir)
              /\ Occurrences(heap[heap[n].Parent].Children, n) = 1

\* a directory with children was deleted and the tree re-sorted by name
C16_Witness ==
    /\ Browsing
    /\ ~m.deleting
    /\ m.statusMsg.text = "Deleted"
    /\ m.sortBy = "name"
    /\ heap[m.deleteTarget].IsDir
    /\ heap[m.deleteTarget].Children # << >>
    /\ m.deleteTarget \notin Subtree(heap, m.rootDir)
    /\ Cardinality(Subtree(heap, m.rootDir)) > 1

(***************************************************************************)
(* C17: while the sort mode is size, the children of every directory of    *)
(* the tree are listed largest first (non-increasing Size), in every       *)
(* browsing state reached by navigation, sort toggles and successful       *)
(* deletes, the ancestors of a deleted entry included.                     *)
(***************************************************************************)
C17_SizeOrderKept ==
    (Browsing /\ m.sortBy = "size") =>
        \A n \in Subtree(heap, m.rootDir) : NonIncreasing(heap, n)

(***************************************************************************)
(* C18: formatSize prints a count below 1024 as a plain integer and a      *)
(* larger one scaled by 1024 with one decimal: 0 -> "0 B", 1023 ->         *)
(* "1023 B", 1024 -> "1.0 KB", 1536 -> "1.5 KB", 1048576 -> "1.0 MB"; and  *)
(* the unit index never goes past the last unit, EB, for a non-negative    *)
(* int64 count.                                                            *)
(***************************************************************************)
C18_FormatSize ==
    formatOut # "" =>
        /\ formatArg = Int64(0) => formatOut = "0 B"
        /\ formatArg = Int64(1023) => formatOut = "1023 B"
        /\ formatArg = Int64(1024) => formatOut = "1.0 KB"
        /\ formatArg = Int64(1536) => formatOut = "1.5 KB"
        /\ formatArg = Int64(1048576) => formatOut = "1.0 MB"
        /\ BelowUnit(formatArg) => formatOut = ToString(formatArg[1]) \o " B"
        /\ ~BelowUnit(formatArg) =>
              LET p == Scaled(formatArg)
                  \* the leading digit is digit exp + 2: one division by unit
                  \* per unit letter
                  top == p.exp + 2
              IN  /\ p.exp \in 0..(Len(UnitLetters) - 1)
                  /\ formatArg[top] # 0
                  /\ \A i \in (top + 1)..Int64Digits : formatArg[i] = 0
                  /\ p.tenth \in 0..9
                  /\ p.whole \in {formatArg[top], formatArg[top] + 1}
                  /\ formatOut = ToString(p.whole) \o "." \o ToString(p.tenth) \o " "
                                    \o UnitLetters[p.exp + 1] \o "B"
                  \* below 64 MB the arithmetic fits: 10 * bytes / div is within
                  \* one half of the printed number of tenths
                  /\ (top <= 3 /\ formatArg[3] < 64) =>
                        LET v   == formatArg[1] + unit * formatArg[2]
                                       + unit * unit * formatArg[3]
                            div == unit^(p.exp + 1)
                            d   == 10 * p.whole + p.tenth
                        IN  /\ 2 * (10 * v - d * div) <= div
                            /\ 2 * (d * div - 10 * v) <= div

\* the largest int64 was formatted: float64 rounds it to 2^63, 8 units of 2^60
C18_Witness ==
    /\ formatArg = Sample(Int64Digits, MaxTopDigit, unit - 1, "ones")
    /\ formatOut = "8.0 EB"

\* the scan has completed with a nil root
FatalError == ~m.scanning /\ m.rootDir = Nil

(***************************************************************************)
(* C19: after a fatal scan error rootDir and currentDir stay nil and       *)
(* scanError stays set for the rest of the session; every key but quit is  *)
(* handled without touching the nil tree, starts no delete and leaves      *)
(* rootDir, currentDir and the cursor as they are, and the error screen    *)
(* stays; only quit ends the session.                                      *)
(***************************************************************************)
C19_FatalErrorInert ==
    /\ [](FatalError =>
            /\ m.currentDir = Nil
            /\ m.scanError
            /\ m.cursor = 0
            /\ ~m.deleting
            /\ deletesStarted = 0
            /\ ViewScreen(m) = "error"
            /\ proc # "panic"
            /\ \A key \in Keys \ QuitKeys :
                  LET r == UpdateKey(m, heap, key)
                  IN  /\ r.cmd = "nil"
                      /\ r.heap = heap
                      /\ [r.m EXCEPT !.sortBy = m.sortBy] = m
                      /\ ViewScreen(r.m) = "error"
            /\ \A key \in QuitKeys : UpdateKey(m, heap, key) = Ret(m, heap, "Quit"))
    /\ [][FatalError => FatalError' /\ heap' = heap]_vars

\* keys, 's' among them, were handled after the fatal error
C19_Witness ==
    /\ FatalError
    /\ proc = "running"
    /\ m.scanError
    /\ m.sortBy = "name"

(***************************************************************************)
(* C20: while scanning or deleting is true every key other than 'q' and    *)
(* ctrl+c leaves the whole model and the tree unchanged and issues no      *)
(* command; so until the scan completes nothing but the scanner writes to  *)
(* the tree, the session is still at its initial position and sort mode    *)
(* and no delete was requested; and scanning and deleting are never both   *)
(* true.                                                                   *)
(***************************************************************************)
C20_GatedKeysInert ==
    /\ [](~(m.scanning /\ m.deleting))
    /\ []((proc = "running" /\ Gated(m)) =>
            \A key \in Keys \ QuitKeys : UpdateKey(m, heap, key) = Ret(m, heap, "nil"))
    /\ [](m.scanning =>
            /\ m.rootDir = Nil
            /\ m.currentDir = Nil
            /\ m.cursor = 0
            /\ m.sortBy = "size"
            /\ deletesStarted = 0
            /\ deleteTasks = << >>
            /\ deleteMsgs = << >>)
    /\ [][(m.scanning /\ heap' # heap) => sc' # sc]_vars
    /\ [][(m.deleting /\ heap' # heap) => DeleteSucceeds]_vars
    /\ [][(Gated(m) /\ Gated(m')) =>
            /\ m'.currentDir = m.currentDir
            /\ m'.cursor = m.cursor
            /\ m'.sortBy = m.sortBy
            /\ m'.deleting = m.deleting
       ]_vars

\* a delete is running in a directory below the root, in sort mode name
C20_Witness ==
    /\ proc = "running"
    /\ m.deleting
    /\ ~m.scanning
    /\ m.sortBy = "name"
    /\ m.currentDir # m.rootDir
    /\ deleteTasks # << >>

\* the progress state the scanning screen shows
Progress(mm) ==
    << mm.scanProgress, mm.filesScanned, mm.dirsScanned, mm.totalSize >>

\* the progress state a snapshot carries
Carried(msg) == << msg.root, msg.filesScanned, msg.dirsScanned, msg.totalSize >>

(***************************************************************************)
(* C21: a tick handled while scanning takes at most one snapshot off the   *)
(* channel, the oldest one, and copies it into the progress state the UI   *)
(* shows; on an empty channel it leaves that state as it is; either way it *)
(* schedules exactly one next tick.                                        *)
(***************************************************************************)
C21_TickTakesOne ==
    /\ []((proc = "running" /\ m.scanning) =>
            LET r == UpdateScanTick(m, progressChan)
            IN  /\ r.cmd = "scanTick"
                /\ IF progressChan = << >>
                   THEN r.m = m /\ r.chan = << >>
                   ELSE /\ r.chan = Tail(progressChan)
                        /\ Progress(r.m) = Carried(Head(progressChan))
                        /\ r.m = [m EXCEPT !.scanProgress = r.m.scanProgress,
                                           !.filesScanned = r.m.filesScanned,
                                           !.dirsScanned = r.m.dirsScanned,
                                           !.totalSize = r.m.totalSize])
    /\ [](m.scanning => scanTicks = 1)
    /\ [](scanTicks \in {0, 1})
    /\ [][Len(progressChan') >= Len(progressChan) - 1]_vars
    /\ [][(m.scanning /\ m'.scanning /\ Progress(m') # Progress(m)) =>
            /\ progressChan # << >>
            /\ progressChan' = Tail(progressChan)
            /\ Progress(m') = Carried(Head(progressChan))
       ]_vars

\* a tick has shown a snapshot and newer ones are waiting on the channel
C21_Witness ==
    /\ proc = "running"
    /\ m.scanning
    /\ m.scanProgress # Nil
    /\ Len(progressChan) >= 2
    /\ m.filesScanned < Head(progressChan).filesScanned
    /\ scanTicks = 1

(***************************************************************************)
(* C22: once the scanCompleteMsg has been handled, the next tick schedules *)
(* no further tick and takes no snapshot: the tick chain ends with the one *)
(* tick that was pending, the snapshots left on the channel are never read *)
(* and the progress counters the UI shows never change again.              *)
(***************************************************************************)
C22_TicksStop ==
    /\ []((proc = "running" /\ ~m.scanning) =>
            UpdateScanTick(m, progressChan)
                = [m |-> m, chan |-> progressChan, cmd |-> "nil"])
    /\ [](scanTicks = 0 => ~m.scanning)
    /\ [][~m.scanning =>
            /\ progressChan' = progressChan
            /\ Progress(m') = Progress(m)
            /\ scanTicks' <= scanTicks
       ]_vars
    /\ ~m.scanning ~> (scanTicks = 0 \/ proc # "running")

\* the tick chain has ended and left snapshots unread on the channel
C22_Witness ==
    /\ proc = "running"
    /\ ~m.scanning
    /\ scanTicks = 0
    /\ progressChan # << >>
    /\ m.filesScanned < progressChan[Len(progressChan)].filesScanned

(***************************************************************************)
(* C23: during scanning the preview shown from the progress snapshot has   *)
(* at most 5 entries and they are the largest top-level children of the    *)
(* root observed so far: no observed top-level child left out of the       *)
(* preview is larger than one shown in it.                                 *)
(***************************************************************************)
C23_PreviewLargest ==
    (m.scanning /\ m.scanProgress # Nil) =>
        LET shown == Preview(m, heap)
            observed == heap[m.scanProgress].Children
        IN  /\ Len(shown) <= PreviewLimit
            /\ Range(shown) \subseteq Range(observed)
            /\ \A c \in Range(observed) \ Range(shown) :
                  \A p \in Range(shown) : heap[c].Size <= heap[p].Size

\* the children of n are listed by lower-cased base name, ascending
NameAscending(h, n) ==
    \A i \in 1..(Len(h[n].Children) - 1) :
        ~StrLess(ToLower(Base(h[h[n].Children[i + 1]].Path)),
                 ToLower(Base(h[h[n].Children[i]].Path)))

(***************************************************************************)
(* C24: the sort toggle flips the sort mode and re-orders the children of  *)
(* every directory reachable from rootDir, not only of currentDir: by      *)
(* lower-cased base name ascending in name mode, by non-increasing Size in *)
(* size mode.  It sets the cursor to 0 and leaves currentDir, every node's *)
(* Size and Parent and each directory's set of children as they were.      *)
(***************************************************************************)
C24_ToggleSortsWholeTree ==
    (Accepting /\ Browsing) =>
        LET r == UpdateKey(m, heap, "s")
            mode == IF m.sortBy = "size" THEN "name" ELSE "size"
        IN  /\ r.cmd = "nil"
            /\ r.m = [m EXCEPT !.sortBy = mode, !.cursor = 0]
            /\ SameUpToOrder(heap, r.heap)
            /\ Subtree(r.heap, m.rootDir) = Subtree(heap, m.rootDir)
            /\ \A n \in Subtree(r.heap, m.rootDir) :
                  IF mode = "name" THEN NameAscending(r.heap, n)
                  ELSE NonIncreasing(r.heap, n)

\* in name mode, inside a directory, another directory of the scanned tree is
\* listed in an order that is not its size order
C24_Witness ==
    /\ Accepting
    /\ Browsing
    /\ m.sortBy = "name"
    /\ deletesStarted = 0
    /\ m.currentDir # m.rootDir
    /\ \E n \in Subtree(heap, m.rootDir) :
          n # m.currentDir /\ ~NonIncreasing(heap, n) /\ NameAscending(heap, n)

(***************************************************************************)
(* C25: sorting by size is stable: whenever the children of a directory    *)
(* are sorted by size, at the end of scanning the directory and on a       *)
(* toggle to size mode, any two children of equal Size keep the relative   *)
(* order they had immediately before the sort.                             *)
(***************************************************************************)
\* the children of equal Size stand in slice after in the order of slice before
KeepsTies(h, before, after) ==
    \A i, j \in 1..Len(before) :
        (i < j /\ h[before[i]].Size = h[before[j]].Size)
            => IndexOf(after, before[i]) < IndexOf(after, before[j])

\* the step that ends the scan of the root directory
RootSorted == sc.pc = "loop" /\ sc'.pc = "final"

\* two presses of the sort key in size mode: the second one sorts by size
\* the slices the first one left in name order
ToggledToName == UpdateKey(m, heap, "s")

ToggledBack == UpdateKey(ToggledToName.m, ToggledToName.heap, "s")

\* C25: the sort that ends the scan of the root keeps the order in which the
\* children of equal Size were appended, and a toggle to size mode keeps the
\* order the children of equal Size had in name mode, in every directory
C25_SizeSortStable ==
    /\ [][RootSorted
            => KeepsTies(heap', heap[RootId].Children, heap'[RootId].Children)]_vars
    /\ []((Accepting /\ Browsing /\ m.sortBy = "size")
            => \A d \in Subtree(heap, m.rootDir) :
                   KeepsTies(heap, ToggledToName.heap[d].Children,
                             ToggledBack.heap[d].Children))

(***************************************************************************)
(* C26: whenever a deleteCompleteMsg is processed, currentDir is still the *)
(* directory the delete was requested from: it is the target's Parent and  *)
(* the target is still in its Children, under the cursor; so removing the  *)
(* target from currentDir.Children and recomputing sizes from currentDir   *)
(* detaches it from its real parent; and currentDir is always a node       *)
(* reachable from rootDir, never a deleted one.                            *)
(***************************************************************************)
\* the target of the deleteCompleteMsg that is delivered next
PendingTarget == Head(deleteMsgs).target

\* C26: while a deleteCompleteMsg waits, currentDir is the Parent of its
\* target and the target is the child under the cursor; the successful one
\* leaves currentDir in place, takes the target out of its Parent's Children
\* and out of the tree and makes the Size of currentDir the sum of the
\* remaining children; a non-nil currentDir is always reachable from rootDir
C26_DeleteInCurrentDir ==
    /\ [](deleteMsgs # << >>
            => /\ m.deleting
               /\ PendingTarget = m.deleteTarget
               /\ m.currentDir # Nil
               /\ heap[PendingTarget].Parent = m.currentDir
               /\ HasSelected
               /\ Selected = PendingTarget)
    /\ [][DeleteSucceeds
            => /\ m'.currentDir = m.currentDir
               /\ PendingTarget \notin Range(heap'[heap[PendingTarget].Parent].Children)
               /\ PendingTarget \notin Subtree(heap', m'.rootDir)
               /\ Range(heap'[m.currentDir].Children)
                      = Range(heap[m.currentDir].Children) \ {PendingTarget}
               /\ heap'[m.currentDir].Size
                      = heap[m.currentDir].Size - heap[PendingTarget].Size]_vars
    /\ [](m.currentDir # Nil
            => m.rootDir # Nil /\ m.currentDir \in Subtree(heap, m.rootDir))

\* a second delete, requested below the root with the cursor off the first
\* row, has succeeded and its deleteCompleteMsg waits
C26_Witness ==
    /\ deleteMsgs # << >>
    /\ ~Head(deleteMsgs).err
    /\ m.statusMsg.text = "Deleted"
    /\ m.currentDir # m.rootDir
    /\ m.cursor > 0
====
